---- MODULE Spec2Model ----
(***************************************************************************)
(* FlexiLoop motor controller (motor_ctrl.ino): the serial command loop,   *)
(* the dispatcher process(), and the motion routines move_ms, move_fwd,    *)
(* move_rev, go_home_or_max and move_to_feedback_value, with the serial    *)
(* input, the feedback potentiometer and the driver's fault flag as the    *)
(* environment.                                                            *)
(*                                                                         *)
(* Environment model.  A frame can arrive on the serial line at any time.  *)
(* The potentiometer reading follows the actuator, which moves only while *)
(* time passes in a delay() with the motor driven, in the direction of the *)
(* sign of the last speed given to the driver, by 0..MaxStep units per     *)
(* delay, and stops at the ends of its travel MinPos..MaxPos.  getFault()  *)
(* may answer either way at every call.  The host sends any frame of its   *)
(* vocabulary when the controller is idle, abort, stop, heartbeat or a     *)
(* speed setting while a motion is running, and only abort or stop behind  *)
(* a frame that is still unread.                                           *)
(*                                                                         *)
(* Output frames are logged by their name only (Status, MoveTo, ...), for  *)
(* the command being processed; runs of Status frames longer than          *)
(* MaxStatusLog are not extended in the log.  fb_val (written by           *)
(* check_limit, never read elsewhere in motor_ctrl.ino) is not kept.       *)
(***************************************************************************)
EXTENDS Integers, Sequences, FiniteSets, TLC

\* ------------------------------------------------------------ bounds
\* Travel of the actuator, in potentiometer units (a window of 0..1023)
MinPos == 10
MaxPos == 17
\* Largest movement of the reading during one delay() with the motor driven
MaxStep == 3
\* Frames the serial receive buffer holds
MaxBuf == 2
\* Longest run of Status frames kept in the output log
MaxStatusLog == 1
\* free runs in reverse modelled after fb_counter has fallen below zero
MaxDebt == 2
\* Largest argument tried by the argument-parsing specification
MaxArg == 1023

\* ------------------------------------------------- program constants
DEFAULT_SPEED == 200
FORWARD == 0
REVERSE == 1
HOME == 0
MAX == 1
\* home_limit / max_limit not set
Unset == -1
\* reload value of the status counters (counter, st_counter)
StatusReload == 5
\* margin of check_limit
LimitMargin == 2
\* stall-detecting sketch: fb_val before the first reading
NoReading == -1
\* stall-detecting sketch: initial value of fb_counter
StabReload == 5
\* stall-detecting sketch: a reading within 2 units of the last one is stationary
StallMargin == 2
\* parse_int reads the argument only of frames longer than this
ParseMinLen == 4
\* correction speed, attempts and tolerance of move_to_feedback_value
SlowSpeed == 50
\* pulse lengths, ms: nudge, take-up, correction
NudgeMs == 20
TakeupMs == 100
FineMs == 50
Attempts == 10
Tolerance == 1

\* -------------------------------------------------------- characters
DigitChars == <<"0", "1", "2", "3", "4", "5", "6", "7", "8", "9">>

IsDigit(c) == \E i \in 1..10 : DigitChars[i] = c

DigitVal(c) == (CHOOSE i \in 1..10 : DigitChars[i] = c) - 1

\* Decimal text of a natural number, as the host formats an argument
RECURSIVE Digits(_)
Digits(n) == IF n < 10 THEN <<DigitChars[n + 1]>>
             ELSE Digits(n \div 10) \o <<DigitChars[(n % 10) + 1]>>

\* The frame "<c>,<n>." (the terminator ';' is removed by readStringUntil)
Format(c, n) == <<c, ",">> \o (IF n < 0 THEN <<"-">> \o Digits(-n) ELSE Digits(n)) \o <<".">>

\* int is 16 bits wide on the AVR
Int16(x) == ((x + 32768) % 65536) - 32768

\* String::toInt (atol): optional sign, then the leading digits; 0 if none
RECURSIVE LeadingDigits(_, _)
LeadingDigits(s, acc) ==
  IF s = <<>> \/ ~IsDigit(Head(s)) THEN acc
  ELSE LeadingDigits(Tail(s), 10 * acc + DigitVal(Head(s)))

toInt(s) ==
  IF s = <<>> THEN 0
  ELSE IF Head(s) = "-" THEN -LeadingDigits(Tail(s), 0)
  ELSE IF Head(s) = "+" THEN LeadingDigits(Tail(s), 0)
  ELSE LeadingDigits(s, 0)

\* The characters of data from index i (0-based) up to the first '.'
RECURSIVE ArgText(_, _)
ArgText(data, i) ==
  IF i >= Len(data) \/ data[i + 1] = "." THEN <<>>
  ELSE <<data[i + 1]>> \o ArgText(data, i + 1)

\* parse_int: frames of at most 4 characters give 0
parse_int(data, start_at) ==
  IF Len(data) > ParseMinLen THEN Int16(toInt(ArgText(data, start_at))) ELSE 0

\* data[0]; an empty String gives the NUL character
CmdChar(data) == IF data = <<>> THEN "NUL" ELSE data[1]

\* ------------------------------------------------------- environment
\* Arguments the host sends: limits, target, speeds, run time
HomeArgs == {MinPos}
MaxArgs == {MaxPos - 1}
TargetArgs == {MinPos + 4}
SpeedArgs == {0, -500}
MsArgs == {20}

NoArgCmds == {"a", "b", "c", "d", "e", "f", "h", "p", "r", "x", "y", "z", "q"}

Vocab ==
  {<<c>> : c \in NoArgCmds}
    \cup {Format("j", n) : n \in HomeArgs}
    \cup {Format("k", n) : n \in MaxArgs}
    \cup {Format("m", n) : n \in TargetArgs}
    \cup {Format("s", n) : n \in SpeedArgs}
    \cup {Format("v", n) : n \in MsArgs}
    \cup {Format("w", n) : n \in MsArgs}

\* Frames the host sends while a motion operation is running
MidVocab == {<<"z">>, <<"e">>, <<"y">>, Format("s", 0)}

\* Frames the host sends behind a frame that is still unread: abort and stop
Urgent == {<<"z">>, <<"e">>}

\* ------------------------------------------------------------- state
VARIABLES
  current_speed, home_limit, max_limit, relay,  \* globals of the sketch
  m1speed,      \* last speed given to md.setM1Speed
  pos,          \* actuator position = potentiometer reading
  inbuf,        \* serial receive buffer, frames [data, during]
  pc,           \* position of the program
  cmd,          \* command character being processed ("" when idle)
  out,          \* frames printed for the command being processed
  sig,          \* safety signal seen by the command being processed
  faulted,      \* where getFault() answered true in this command
  start_lim,    \* the free run in progress started 2 units or less from a limit
  start_zone,   \* check_limit() held on the reading when the free run was dispatched
  fb_val, fb_counter,  \* end-of-travel globals of the stall-detecting sketch;
                       \* its last_fb_val is fb_val of the state before the poll
  cal_fb_val, cal_fb_counter,  \* the same, locals of its go_home_or_max
  streak,       \* consecutive stationary polls so far in its operation in progress
  target, dir, counter, endf, l_speed, attempts, diff, ms,  \* locals
  ms_ret        \* caller of the move_ms in progress

vars == <<current_speed, home_limit, max_limit, relay, m1speed, pos, inbuf, pc,
          cmd, out, sig, faulted, start_lim, target, dir, counter, endf, l_speed,
          attempts, diff, ms, ms_ret, start_zone, fb_val, fb_counter,
          cal_fb_val, cal_fb_counter, streak>>

config == <<current_speed, home_limit, max_limit, relay>>
locals == <<target, dir, counter, endf, l_speed, attempts, diff, ms, ms_ret>>
ghosts == <<cmd, out, sig, faulted, start_lim>>
\* state of the stall detection (second sketch of the source file)
stab == <<fb_val, fb_counter, cal_fb_val,
          cal_fb_counter, streak>>

MotionCmds == {"c", "d", "f", "h", "m", "r", "v", "w", "x"}

\* A motion operation is running
Active == pc \notin {"idle", "ret"}

\* What was running when a frame arrived: nothing, a free run, another motion
Running == IF ~Active THEN "" ELSE IF pc = "run_loop" THEN "run" ELSE "move"

NoLocals ==
  /\ target' = 0 /\ dir' = FORWARD /\ counter' = 0 /\ endf' = FALSE
  /\ l_speed' = 0 /\ attempts' = 0 /\ diff' = 0 /\ ms' = 0 /\ ms_ret' = "cmd"

Init ==
  /\ current_speed = DEFAULT_SPEED
  /\ home_limit = Unset /\ max_limit = Unset
  /\ relay = "HIGH"
  /\ m1speed = 0
  /\ pos \in MinPos..MaxPos
  /\ inbuf = <<>>
  /\ pc = "idle" /\ cmd = "" /\ out = <<>>
  /\ sig = "none" /\ faulted = "none" /\ start_lim = FALSE
  /\ start_zone = FALSE
  /\ fb_val = NoReading /\ fb_counter = StabReload
  /\ cal_fb_val = NoReading /\ cal_fb_counter = StabReload
  /\ streak = 0
  /\ target = 0 /\ dir = FORWARD /\ counter = 0 /\ endf = FALSE
  /\ l_speed = 0 /\ attempts = 0 /\ diff = 0 /\ ms = 0 /\ ms_ret = "cmd"

\* The host sends a frame
SendFrame ==
  /\ pc # "ret"
  /\ Len(inbuf) < MaxBuf
  /\ \E d \in (IF inbuf # <<>> THEN Urgent ELSE IF Active THEN MidVocab ELSE Vocab) :
       inbuf' = Append(inbuf, [data |-> d, during |-> Running])
  /\ UNCHANGED <<config, m1speed, pos, pc, ghosts, start_zone, stab, locals>>

\* ----------------------------------------------------------- helpers
Min(a, b) == IF a < b THEN a ELSE b
Max(a, b) == IF a > b THEN a ELSE b
Abs(x) == IF x < 0 THEN -x ELSE x

\* Positions the actuator can be at after a delay(), moving at least lo units
Moved(lo) ==
  IF m1speed > 0 THEN {Min(pos + k, MaxPos) : k \in lo..MaxStep}
  ELSE IF m1speed < 0 THEN {Max(pos - k, MinPos) : k \in lo..MaxStep}
  ELSE {pos}

\* Serial.print of one frame, logged by name
StatusRun(o) ==
  IF o = <<>> \/ o[Len(o)] # "Status" THEN 0
  ELSE CHOOSE n \in 1..Len(o) :
         /\ \A i \in (Len(o) - n + 1)..Len(o) : o[i] = "Status"
         /\ (n = Len(o) \/ o[Len(o) - n] # "Status")

Emit(o, f) ==
  IF f = "Status" /\ StatusRun(o) >= MaxStatusLog THEN o ELSE Append(o, f)

\* (mutant) no status report is printed
send_nothing(o) == o

\* send_status
send_status(o) == Emit(o, "Status")

\* Serial.readStringUntil(';') when Serial.available() > 0
Drained(buf) == IF buf = <<>> THEN buf ELSE Tail(buf)

\* (mutant) the whole buffer is searched for an abort frame
check_abort_scans(buf) == \E i \in 1..Len(buf) : CmdChar(buf[i].data) = "z"

\* check_abort: one frame is read if there is one; true if it is 'z'
check_abort(buf) == buf # <<>> /\ CmdChar(Head(buf).data) = "z"

\* check_stop: one frame is read if there is one; true if it is 'e'
check_stop(buf) == buf # <<>> /\ CmdChar(Head(buf).data) = "e"

\* (mutant) the reading 2 units from a limit counts as at the limit
check_limit_inclusive(fb, home, max) ==
  /\ home # Unset /\ max # Unset
  /\ (fb <= home + LimitMargin \/ fb >= max - LimitMargin)

\* (mutant) only the home limit is watched
check_limit_home_only(fb, home, max) ==
  /\ home # Unset /\ max # Unset
  /\ fb < home + LimitMargin

\* check_limit on the reading fb
check_limit(fb, home, max) ==
  /\ home # Unset /\ max # Unset
  /\ (fb < home + LimitMargin \/ fb > max - LimitMargin)

\* (mutant) the status report comes one iteration earlier
StatusDueEarly(c) == c <= 1

\* if (counter-- <= 0) { counter = 5; send_status(); }
StatusDue(c) == c <= 0
NextCounter(c) == IF c <= 0 THEN StatusReload ELSE c - 1

\* the reading fb is more than the margin away from both limits
ClearOfLimits(fb, home, max) == fb > home + LimitMargin /\ fb < max - LimitMargin

\* ----------------------------------------------------- loop / process
\* loop(): a frame is available and is read; process() switches on data[0]
Dispatch(c) ==
  /\ pc = "idle"
  /\ inbuf # <<>>
  /\ CmdChar(Head(inbuf).data) = c
  /\ inbuf' = Tail(inbuf)
  /\ cmd' = c
  /\ sig' = "none"
  /\ start_lim' = (c \in {"c", "d"} /\ ~ClearOfLimits(pos, home_limit, max_limit))
  /\ start_zone' = (c \in {"c", "d"} /\ check_limit(pos, home_limit, max_limit))
  /\ UNCHANGED stab

\* A handler that runs to its break in one step and prints f
Respond(f) ==
  /\ pc' = "ret"
  /\ out' = <<f>>
  /\ faulted' = "none"
  /\ UNCHANGED <<pos, locals>>

process_a ==
  /\ Dispatch("a")
  /\ relay' = "LOW"
  /\ Respond("RlyOn")
  /\ UNCHANGED <<current_speed, home_limit, max_limit, m1speed>>

process_b ==
  /\ Dispatch("b")
  /\ relay' = "HIGH"
  /\ Respond("RlyOff")
  /\ UNCHANGED <<current_speed, home_limit, max_limit, m1speed>>

\* stop_move
process_e ==
  /\ Dispatch("e")
  /\ m1speed' = 0
  /\ Respond("StopRun")
  /\ UNCHANGED config

\* (mutant) the home limit command also moves the max limit
process_j_sets_both ==
  /\ Dispatch("j")
  /\ home_limit' = parse_int(Head(inbuf).data, 2)
  /\ max_limit' = parse_int(Head(inbuf).data, 2)
  /\ Respond("HomeLimit")
  /\ UNCHANGED <<current_speed, relay, m1speed>>

process_j ==
  /\ Dispatch("j")
  /\ home_limit' = parse_int(Head(inbuf).data, 2)
  /\ Respond("HomeLimit")
  /\ UNCHANGED <<current_speed, max_limit, relay, m1speed>>

process_k ==
  /\ Dispatch("k")
  /\ max_limit' = parse_int(Head(inbuf).data, 2)
  /\ Respond("MaxLimit")
  /\ UNCHANGED <<current_speed, home_limit, relay, m1speed>>

\* (mutant) the position request is answered with a status report first
process_p_status ==
  /\ Dispatch("p")
  /\ pc' = "ret"
  /\ out' = <<"Status", "Pos">>
  /\ faulted' = "none"
  /\ UNCHANGED <<config, m1speed, pos, locals>>

process_p ==
  /\ Dispatch("p")
  /\ Respond("Pos")
  /\ UNCHANGED <<config, m1speed>>

process_s ==
  /\ Dispatch("s")
  /\ current_speed' = parse_int(Head(inbuf).data, 2)
  /\ Respond("Speed")
  /\ UNCHANGED <<home_limit, max_limit, relay, m1speed>>

\* (mutant) the heartbeat restores the default speed
process_y_resets ==
  /\ Dispatch("y")
  /\ current_speed' = DEFAULT_SPEED
  /\ Respond("y")
  /\ UNCHANGED <<home_limit, max_limit, relay, m1speed>>

process_y ==
  /\ Dispatch("y")
  /\ Respond("y")
  /\ UNCHANGED <<config, m1speed>>

\* (mutant) an abort outside a move is answered
process_z_answers ==
  /\ Dispatch("z")
  /\ Respond("Abort")
  /\ UNCHANGED <<config, m1speed>>

\* An abort outside a move: no response
process_z ==
  /\ Dispatch("z")
  /\ pc' = "ret" /\ out' = <<>> /\ faulted' = "none"
  /\ UNCHANGED <<config, m1speed, pos, locals>>

KnownCmds == {"a", "b", "c", "d", "e", "f", "h", "j", "k", "m", "p", "r", "s",
              "v", "w", "x", "y", "z"}

\* (mutant) an unknown command is dropped without a response
process_default_silent ==
  /\ \E c \in {CmdChar(d) : d \in Vocab} \ KnownCmds : Dispatch(c)
  /\ pc' = "ret" /\ out' = <<>> /\ faulted' = "none"
  /\ UNCHANGED <<config, m1speed, pos, locals>>

process_default ==
  /\ \E c \in {CmdChar(d) : d \in Vocab} \ KnownCmds : Dispatch(c)
  /\ Respond("Bad cmd!")
  /\ UNCHANGED <<config, m1speed>>

\* process() has returned; loop() waits TICK ms and looks for the next frame
loop_tick ==
  /\ pc = "ret"
  /\ pc' = "idle"
  /\ cmd' = "" /\ out' = <<>> /\ sig' = "none" /\ faulted' = "none"
  /\ start_lim' = FALSE
  /\ start_zone' = FALSE
  /\ NoLocals
  /\ UNCHANGED stab
  /\ UNCHANGED <<config, m1speed, pos, inbuf>>

\* ------------------------------------------------------------ move_ms
\* The response names of the timed runs and nudges: success, fault
MsOk(c) == CASE c = "f" -> "NudgeFwd" [] c = "r" -> "NudgeRev"
             [] c = "v" -> "msRev" [] OTHER -> "msFwd"
MsFault(c) == CASE c \in {"f", "r"} -> "Motor fault on nudge!"
                [] c = "v" -> "Motor fault on reverse ms!"
                [] OTHER -> "Motor fault on forward ms!"
MsDir(c) == IF c \in {"f", "w"} THEN FORWARD ELSE REVERSE

\* (mutant) every pulse drives forward
MsSpeedForward(d, speed) == speed

\* speed of move_ms for direction d
MsSpeed(d, speed) == IF d = FORWARD THEN speed ELSE -speed

\* f, r, v, w: move_ms is entered and the speed is set
process_ms ==
  /\ \E c \in {"f", "r", "v", "w"} :
       /\ Dispatch(c)
       /\ m1speed' = MsSpeed(MsDir(c), current_speed)
       /\ ms' = (IF c \in {"f", "r"} THEN NudgeMs ELSE parse_int(Head(inbuf).data, 2))
  /\ pc' = "ms_chk"
  /\ out' = <<>> /\ faulted' = "none"
  /\ target' = 0 /\ dir' = FORWARD /\ counter' = 0 /\ endf' = FALSE
  /\ l_speed' = 0 /\ attempts' = 0 /\ diff' = 0 /\ ms_ret' = "cmd"
  /\ UNCHANGED <<config, pos>>

\* move_ms: getFault() is true
move_ms_fault ==
  /\ pc = "ms_chk"
  /\ m1speed' = 0
  /\ IF ms_ret = "cmd"
       THEN /\ pc' = "ret" /\ out' = Emit(out, MsFault(cmd)) /\ faulted' = "init"
       ELSE /\ pc' = (IF ms_ret = "takeup" THEN "mt_tk_poll" ELSE "mt_fn_poll")
            /\ out' = out /\ faulted' = "pulse"
  /\ UNCHANGED <<config, pos, inbuf, cmd, sig, start_lim, start_zone, stab, locals>>

\* move_ms: no fault; delay(ms), stop, send_status
move_ms_ok(lo) ==
  /\ pc = "ms_chk"
  /\ pos' \in Moved(lo)
  /\ m1speed' = 0
  /\ IF ms_ret = "cmd"
       THEN /\ pc' = "ret" /\ out' = Emit(send_status(out), MsOk(cmd))
       ELSE /\ pc' = (IF ms_ret = "takeup" THEN "mt_tk_poll" ELSE "mt_fn_poll")
            /\ out' = send_status(out)
  /\ UNCHANGED <<config, inbuf, cmd, sig, faulted, start_lim, start_zone, stab, locals>>

\* ------------------------------------------------- move_fwd, move_rev
RunName(c) == IF c = "c" THEN "RunFwd" ELSE "RunRev"

process_c ==
  /\ Dispatch("c")
  /\ m1speed' = current_speed
  /\ pc' = "fwd_chk"
  /\ out' = <<>> /\ faulted' = "none"
  /\ NoLocals
  /\ UNCHANGED <<config, pos>>

process_d ==
  /\ Dispatch("d")
  /\ m1speed' = -current_speed
  /\ pc' = "rev_chk"
  /\ out' = <<>> /\ faulted' = "none"
  /\ NoLocals
  /\ UNCHANGED <<config, pos>>

\* (mutant) after a fault the run is started again
run_fault_retries ==
  /\ pc \in {"fwd_chk", "rev_chk"}
  /\ m1speed' = (IF cmd = "c" THEN current_speed ELSE -current_speed)
  /\ faulted' = "init"
  /\ pc' = "run_loop"
  /\ counter' = StatusReload
  /\ UNCHANGED <<config, pos, inbuf, cmd, out, sig, start_lim, start_zone, stab,
                 target, dir, endf, l_speed, attempts, diff, ms, ms_ret>>

\* getFault() is true: stop, return FALSE; process() prints RunFwd / RunRev
run_fault ==
  /\ pc \in {"fwd_chk", "rev_chk"}
  /\ m1speed' = 0
  /\ faulted' = "init"
  /\ pc' = "ret"
  /\ out' = Emit(out, RunName(cmd))
  /\ UNCHANGED <<config, pos, inbuf, cmd, sig, start_lim, start_zone, stab, locals>>

move_fwd_go ==
  /\ pc = "fwd_chk"
  /\ pc' = "run_loop"
  /\ counter' = StatusReload
  /\ UNCHANGED <<config, m1speed, pos, inbuf, ghosts, start_zone, stab, target, dir, endf, l_speed,
                 attempts, diff, ms, ms_ret>>

\* move_rev waits 300 ms before its loop
move_rev_go(lo) ==
  /\ pc = "rev_chk"
  /\ pos' \in Moved(lo)
  /\ pc' = "run_loop"
  /\ counter' = StatusReload
  /\ UNCHANGED <<config, m1speed, inbuf, ghosts, start_zone, stab, target, dir, endf, l_speed,
                 attempts, diff, ms, ms_ret>>

\* (mutant) the stop frame ends the run but the motor is left driven
run_stop_coasts ==
  /\ pc = "run_loop"
  /\ check_stop(inbuf)
  /\ inbuf' = Drained(inbuf)
  /\ sig' = "stop"
  /\ pc' = "ret"
  /\ out' = Emit(out, RunName(cmd))
  /\ counter' = 0
  /\ UNCHANGED <<config, m1speed, pos, cmd, faulted, start_lim, start_zone, stab,
                 target, dir, endf, l_speed, attempts, diff, ms, ms_ret>>

\* while (!check_stop() && !check_limit()): a stop frame was read
run_stop ==
  /\ pc = "run_loop"
  /\ check_stop(inbuf)
  /\ inbuf' = Drained(inbuf)
  /\ sig' = "stop"
  /\ m1speed' = 0
  /\ pc' = "ret"
  /\ out' = Emit(out, RunName(cmd))
  /\ counter' = 0
  /\ UNCHANGED <<config, pos, cmd, faulted, start_lim, start_zone, stab, target, dir, endf, l_speed,
                 attempts, diff, ms, ms_ret>>

\* no stop frame, check_limit() is true
run_limit ==
  /\ pc = "run_loop"
  /\ ~check_stop(inbuf)
  /\ check_limit(pos, home_limit, max_limit)
  /\ inbuf' = Drained(inbuf)
  /\ sig' = "limit"
  /\ m1speed' = 0
  /\ pc' = "ret"
  /\ out' = Emit(out, RunName(cmd))
  /\ counter' = 0
  /\ UNCHANGED <<config, pos, cmd, faulted, start_lim, start_zone, stab, target, dir, endf, l_speed,
                 attempts, diff, ms, ms_ret>>

\* neither: the loop body, delay(100) and the status counter
run_step(lo) ==
  /\ pc = "run_loop"
  /\ ~check_stop(inbuf)
  /\ ~check_limit(pos, home_limit, max_limit)
  /\ inbuf' = Drained(inbuf)
  /\ pos' \in Moved(lo)
  /\ out' = (IF StatusDue(counter) THEN send_status(out) ELSE out)
  /\ counter' = NextCounter(counter)
  /\ UNCHANGED <<config, m1speed, pc, cmd, sig, faulted, start_lim, start_zone, stab, target, dir, endf,
                 l_speed, attempts, diff, ms, ms_ret>>

\* ----------------------------------------------------- go_home_or_max
CalName(c) == IF c = "h" THEN "Home" ELSE "Max"
CalSpeed(p, speed) == IF p = HOME THEN -speed ELSE speed

process_h ==
  /\ Dispatch("h")
  /\ m1speed' = CalSpeed(HOME, current_speed)
  /\ pc' = "cal_chk"
  /\ out' = <<>> /\ faulted' = "none"
  /\ NoLocals
  /\ UNCHANGED <<config, pos>>

process_x ==
  /\ Dispatch("x")
  /\ m1speed' = CalSpeed(MAX, current_speed)
  /\ pc' = "cal_chk"
  /\ out' = <<>> /\ faulted' = "none"
  /\ NoLocals
  /\ UNCHANGED <<config, pos>>

\* (mutant) the fault is found after the first poll of the loop
cal_fault_late ==
  /\ pc = "cal_chk"
  /\ m1speed' = 0
  /\ faulted' = "init"
  /\ pc' = "ret"
  /\ inbuf' = Drained(inbuf)
  /\ out' = Emit(Emit(send_status(out), "Motor fault"), CalName(cmd))
  /\ UNCHANGED <<config, pos, cmd, sig, start_lim, start_zone, stab, locals>>

\* getFault() is true: stop, return FALSE; process() prints Motor fault, then Home / Max
cal_fault ==
  /\ pc = "cal_chk"
  /\ m1speed' = 0
  /\ faulted' = "init"
  /\ pc' = "ret"
  /\ out' = Emit(Emit(out, "Motor fault"), CalName(cmd))
  /\ UNCHANGED <<config, pos, inbuf, cmd, sig, start_lim, start_zone, stab, locals>>

\* precaution wait, then the poll loop
cal_go(lo) ==
  /\ pc = "cal_chk"
  /\ pos' \in Moved(lo)
  /\ pc' = "cal_loop"
  /\ counter' = StatusReload
  /\ UNCHANGED <<config, m1speed, inbuf, ghosts, start_zone, stab, target, dir, endf, l_speed,
                 attempts, diff, ms, ms_ret>>

\* All done: delay(100), stop, return TRUE; process() prints Home / Max
CalDone(lo) ==
  /\ pos' \in Moved(lo)
  /\ m1speed' = 0
  /\ pc' = "ret"
  /\ out' = Emit(out, CalName(cmd))
  /\ counter' = 0
  /\ UNCHANGED <<config, cmd, faulted, start_lim, start_zone, stab, target, dir, endf, l_speed,
                 attempts, diff, ms, ms_ret>>

\* if (check_abort() || check_limit()) break: an abort frame was read
cal_abort(lo) ==
  /\ pc = "cal_loop"
  /\ check_abort(inbuf)
  /\ inbuf' = Drained(inbuf)
  /\ sig' = "abort"
  /\ CalDone(lo)

cal_limit(lo) ==
  /\ pc = "cal_loop"
  /\ ~check_abort(inbuf)
  /\ check_limit(pos, home_limit, max_limit)
  /\ inbuf' = Drained(inbuf)
  /\ sig' = "limit"
  /\ CalDone(lo)

\* neither: status counter and delay(500)
cal_step(lo) ==
  /\ pc = "cal_loop"
  /\ ~check_abort(inbuf)
  /\ ~check_limit(pos, home_limit, max_limit)
  /\ inbuf' = Drained(inbuf)
  /\ out' = (IF StatusDue(counter) THEN send_status(out) ELSE out)
  /\ counter' = NextCounter(counter)
  /\ pos' \in Moved(lo)
  /\ UNCHANGED <<config, m1speed, pc, cmd, sig, faulted, start_lim, start_zone, stab, target, dir, endf,
                 l_speed, attempts, diff, ms, ms_ret>>

\* ---------------------------------------------- move_to_feedback_value
\* m: the target is parsed, the direction chosen and the speed set
process_m ==
  /\ Dispatch("m")
  /\ target' = parse_int(Head(inbuf).data, 2)
  /\ dir' = (IF target' > pos THEN FORWARD ELSE REVERSE)
  /\ m1speed' = (IF target' > pos THEN current_speed ELSE -current_speed)
  /\ counter' = StatusReload
  /\ endf' = FALSE
  /\ pc' = "mt_chk"
  /\ out' = <<>> /\ faulted' = "none"
  /\ l_speed' = 0 /\ attempts' = 0 /\ diff' = 0 /\ ms' = 0 /\ ms_ret' = "cmd"
  /\ UNCHANGED <<config, pos>>

\* getFault() is true: stop, return FALSE; process() prints the fault
mt_fault ==
  /\ pc = "mt_chk"
  /\ m1speed' = 0
  /\ faulted' = "init"
  /\ pc' = "ret"
  /\ out' = Emit(out, "Motor fault on move!")
  /\ UNCHANGED <<config, pos, inbuf, cmd, sig, start_lim, start_zone, stab, locals>>

mt_go ==
  /\ pc = "mt_chk"
  /\ out' = send_status(out)
  /\ pc' = "mt_coarse"
  /\ UNCHANGED <<config, m1speed, pos, inbuf, cmd, sig, faulted, start_lim, start_zone, stab, locals>>

\* (mutant) a deviation of 2 is accepted
TooFarLoose(d) == d > Tolerance + 1

\* diff > 1
TooFar(d) == d > Tolerance

\* the test of the coarse loop for direction d on the reading fb
CoarseMore(d, fb, t) == IF d = FORWARD THEN fb < t ELSE fb > t

\* (mutant) the final stop is missing
FinishStillDriving(ls) ==
  /\ current_speed' = ls
  /\ m1speed' = m1speed
  /\ out' = Emit(send_status(out), "MoveTo")
  /\ pc' = "ret"
  /\ UNCHANGED <<home_limit, max_limit, relay, pos, cmd, faulted, start_lim, start_zone, stab>>

\* (mutant) the speed is not restored
FinishKeepsSlow(ls) ==
  /\ m1speed' = 0
  /\ out' = Emit(send_status(out), "MoveTo")
  /\ pc' = "ret"
  /\ UNCHANGED <<config, pos, cmd, faulted, start_lim, start_zone, stab>>

\* Stop driving: restore the speed, stop, final status, return TRUE;
\* process() prints MoveTo
Finish(ls) ==
  /\ current_speed' = ls
  /\ m1speed' = 0
  /\ out' = Emit(send_status(out), "MoveTo")
  /\ pc' = "ret"
  /\ UNCHANGED <<home_limit, max_limit, relay, pos, cmd, faulted, start_lim, start_zone, stab>>

\* a coarse iteration that goes on: no poll is due, or the poll is quiet
coarse_step(lo) ==
  /\ pc = "mt_coarse"
  /\ CoarseMore(dir, pos, target)
  /\ IF StatusDue(counter)
       THEN /\ ~check_abort(inbuf)
            /\ ~check_limit(pos, home_limit, max_limit)
            /\ out' = send_status(out)
            /\ inbuf' = Drained(inbuf)
       ELSE /\ out' = out
            /\ inbuf' = inbuf
  /\ counter' = NextCounter(counter)
  /\ pos' \in Moved(lo)
  /\ UNCHANGED <<config, m1speed, pc, cmd, sig, faulted, start_lim, start_zone, stab, target, dir, endf,
                 l_speed, attempts, diff, ms, ms_ret>>

\* the poll is due and reads an abort frame
coarse_abort ==
  /\ pc = "mt_coarse"
  /\ CoarseMore(dir, pos, target)
  /\ StatusDue(counter)
  /\ check_abort(inbuf)
  /\ inbuf' = Drained(inbuf)
  /\ sig' = "abort"
  /\ endf' = TRUE
  /\ counter' = StatusReload
  /\ l_speed' = current_speed
  /\ Finish(current_speed)
  /\ UNCHANGED <<target, dir, attempts, diff, ms, ms_ret>>

\* (mutant) after a limit in the coarse phase the correction is still made
coarse_limit_corrects ==
  /\ pc = "mt_coarse"
  /\ CoarseMore(dir, pos, target)
  /\ StatusDue(counter)
  /\ ~check_abort(inbuf)
  /\ check_limit(pos, home_limit, max_limit)
  /\ inbuf' = Drained(inbuf)
  /\ sig' = "limit"
  /\ counter' = StatusReload
  /\ l_speed' = current_speed
  /\ m1speed' = 0
  /\ current_speed' = SlowSpeed
  /\ attempts' = Attempts
  /\ diff' = Abs(pos - target)
  /\ out' = send_status(out)
  /\ pc' = "mt_takeup"
  /\ UNCHANGED <<home_limit, max_limit, relay, pos, cmd, faulted, start_lim, start_zone, stab,
                 target, dir, endf, ms, ms_ret>>

\* the poll is due, no abort frame, check_limit() is true
coarse_limit ==
  /\ pc = "mt_coarse"
  /\ CoarseMore(dir, pos, target)
  /\ StatusDue(counter)
  /\ ~check_abort(inbuf)
  /\ check_limit(pos, home_limit, max_limit)
  /\ inbuf' = Drained(inbuf)
  /\ sig' = "limit"
  /\ endf' = TRUE
  /\ counter' = StatusReload
  /\ l_speed' = current_speed
  /\ Finish(current_speed)
  /\ UNCHANGED <<target, dir, attempts, diff, ms, ms_ret>>

\* the reading has crossed the target: stop, settle, and it is close enough
coarse_near ==
  /\ pc = "mt_coarse"
  /\ ~CoarseMore(dir, pos, target)
  /\ ~TooFar(Abs(pos - target))
  /\ diff' = Abs(pos - target)
  /\ l_speed' = current_speed
  /\ Finish(current_speed)
  /\ UNCHANGED <<inbuf, sig, target, dir, counter, endf, attempts, ms, ms_ret>>

\* ... and it is not: slow down and start the correction
coarse_far ==
  /\ pc = "mt_coarse"
  /\ ~CoarseMore(dir, pos, target)
  /\ TooFar(Abs(pos - target))
  /\ diff' = Abs(pos - target)
  /\ l_speed' = current_speed
  /\ m1speed' = 0
  /\ current_speed' = SlowSpeed
  /\ attempts' = Attempts
  /\ pc' = "mt_takeup"
  /\ UNCHANGED <<home_limit, max_limit, relay, pos, inbuf, ghosts, start_zone, stab, target, dir,
                 counter, endf, ms, ms_ret>>

\* take up the slack: while the reading is above the target, pulse reverse
takeup_pulse ==
  /\ pc = "mt_takeup"
  /\ pos > target
  /\ m1speed' = MsSpeed(REVERSE, current_speed)
  /\ ms' = TakeupMs
  /\ ms_ret' = "takeup"
  /\ pc' = "ms_chk"
  /\ UNCHANGED <<config, pos, inbuf, ghosts, start_zone, stab, target, dir, counter, endf, l_speed,
                 attempts, diff>>

takeup_done ==
  /\ pc = "mt_takeup"
  /\ pos <= target
  /\ diff' = Abs(pos - target)
  /\ pc' = "mt_fine"
  /\ UNCHANGED <<config, m1speed, pos, inbuf, ghosts, start_zone, stab, target, dir, counter, endf,
                 l_speed, attempts, ms, ms_ret>>

\* after a take-up pulse: if (check_abort() || check_limit())
takeup_abort ==
  /\ pc = "mt_tk_poll"
  /\ check_abort(inbuf)
  /\ inbuf' = Drained(inbuf)
  /\ sig' = "abort"
  /\ endf' = TRUE
  /\ Finish(l_speed)
  /\ UNCHANGED <<target, dir, counter, l_speed, attempts, diff, ms, ms_ret>>

takeup_limit ==
  /\ pc = "mt_tk_poll"
  /\ ~check_abort(inbuf)
  /\ check_limit(pos, home_limit, max_limit)
  /\ inbuf' = Drained(inbuf)
  /\ sig' = "limit"
  /\ endf' = TRUE
  /\ Finish(l_speed)
  /\ UNCHANGED <<target, dir, counter, l_speed, attempts, diff, ms, ms_ret>>

takeup_next ==
  /\ pc = "mt_tk_poll"
  /\ ~check_abort(inbuf)
  /\ ~check_limit(pos, home_limit, max_limit)
  /\ inbuf' = Drained(inbuf)
  /\ pc' = "mt_takeup"
  /\ UNCHANGED <<config, m1speed, pos, ghosts, start_zone, stab, locals>>

\* the direction of a correction pulse on the reading fb
FineDir(fb, t) == IF fb > t THEN REVERSE ELSE FORWARD

\* fine correction: while (diff > 1) pulse towards the target
fine_pulse ==
  /\ pc = "mt_fine"
  /\ TooFar(diff)
  /\ m1speed' = MsSpeed(FineDir(pos, target), current_speed)
  /\ ms' = FineMs
  /\ ms_ret' = "fine"
  /\ pc' = "ms_chk"
  /\ UNCHANGED <<config, pos, inbuf, ghosts, start_zone, stab, target, dir, counter, endf, l_speed,
                 attempts, diff>>

fine_done ==
  /\ pc = "mt_fine"
  /\ ~TooFar(diff)
  /\ Finish(l_speed)
  /\ UNCHANGED <<inbuf, sig, locals>>

\* if (attempts-- <= 0) break
AttemptsOut(a) == a <= 0

\* after a correction pulse: new diff, attempts used up
fine_exhausted ==
  /\ pc = "mt_fn_poll"
  /\ diff' = Abs(pos - target)
  /\ AttemptsOut(attempts)
  /\ attempts' = attempts - 1
  /\ Finish(l_speed)
  /\ UNCHANGED <<inbuf, sig, target, dir, counter, endf, l_speed, ms, ms_ret>>

\* ... attempts left, check_abort() reads an abort frame
fine_abort ==
  /\ pc = "mt_fn_poll"
  /\ diff' = Abs(pos - target)
  /\ ~AttemptsOut(attempts)
  /\ attempts' = attempts - 1
  /\ check_abort(inbuf)
  /\ inbuf' = Drained(inbuf)
  /\ sig' = "abort"
  /\ Finish(l_speed)
  /\ UNCHANGED <<target, dir, counter, endf, l_speed, ms, ms_ret>>

\* ... attempts left, no abort frame
fine_next ==
  /\ pc = "mt_fn_poll"
  /\ diff' = Abs(pos - target)
  /\ ~AttemptsOut(attempts)
  /\ attempts' = attempts - 1
  /\ ~check_abort(inbuf)
  /\ inbuf' = Drained(inbuf)
  /\ pc' = "mt_fine"
  /\ UNCHANGED <<config, m1speed, pos, ghosts, start_zone, stab, target, dir, counter, endf, l_speed,
                 ms, ms_ret>>

MoveTo(lo) ==
  \/ process_m \/ mt_fault \/ mt_go
  \/ coarse_step(lo) \/ coarse_abort \/ coarse_limit \/ coarse_near \/ coarse_far
  \/ takeup_pulse \/ takeup_done \/ takeup_abort \/ takeup_limit \/ takeup_next
  \/ fine_pulse \/ fine_done \/ fine_exhausted \/ fine_abort \/ fine_next

\* --------------------------------------------------------------- spec
Simple ==
  \/ process_a \/ process_b \/ process_e \/ process_j \/ process_k
  \/ process_p \/ process_s \/ process_y \/ process_z \/ process_default
  \/ loop_tick

Motion(lo) ==
  \/ process_ms \/ move_ms_fault \/ move_ms_ok(lo)
  \/ process_c \/ process_d \/ run_fault \/ move_fwd_go \/ move_rev_go(lo)
  \/ run_stop \/ run_limit \/ run_step(lo)
  \/ process_h \/ process_x \/ cal_fault \/ cal_go(lo)
  \/ cal_abort(lo) \/ cal_limit(lo) \/ cal_step(lo)

\* The program: loop(), process() and what it calls
Program(lo) == Simple \/ Motion(lo) \/ MoveTo(lo)

Next == SendFrame \/ Program(0)

Spec == Init /\ [][Next]_vars

\* The same program with an actuator that moves at least one unit in every
\* delay() during which it is driven (until the end of its travel); loop()
\* and the routines it calls never stop of their own accord
NextStrict == SendFrame \/ Program(1)

FairSpec == Init /\ [][NextStrict]_vars /\ WF_vars(Program(1))

\* Argument parsing: one frame "<c>,<n>." is waiting at boot and is dispatched
ArgCmds == {"j", "k", "m", "s", "v", "w"}

InitParse ==
  /\ current_speed = DEFAULT_SPEED
  /\ home_limit = Unset /\ max_limit = Unset
  /\ relay = "HIGH"
  /\ m1speed = 0
  /\ pos = MinPos
  /\ \E c \in ArgCmds, n \in 0..MaxArg : inbuf = <<[data |-> Format(c, n), during |-> ""]>>
  /\ pc = "idle" /\ cmd = "" /\ out = <<>>
  /\ sig = "none" /\ faulted = "none" /\ start_lim = FALSE
  /\ start_zone = FALSE
  /\ fb_val = NoReading /\ fb_counter = StabReload
  /\ cal_fb_val = NoReading /\ cal_fb_counter = StabReload
  /\ streak = 0
  /\ target = 0 /\ dir = FORWARD /\ counter = 0 /\ endf = FALSE
  /\ l_speed = 0 /\ attempts = 0 /\ diff = 0 /\ ms = 0 /\ ms_ret = "cmd"

NextParse == process_j \/ process_k \/ process_m \/ process_s \/ process_ms

ParseSpec == InitParse /\ [][NextParse]_vars

\* ============================================================= claims
Range(q) == {q[i] : i \in 1..Len(q)}

FaultFrames == {"Motor fault", "Motor fault on move!", "Motor fault on nudge!",
                "Motor fault on reverse ms!", "Motor fault on forward ms!"}

\* process() has returned from the move-to command
MoveToReturned == pc = "ret" /\ cmd = "m"

\* A step of the program (the host's step only adds a frame to inbuf)
ProgStep == Len(inbuf') <= Len(inbuf)

\* C1 (as claimed): a move-to whose safety poll has read an abort frame prints
\* no MoveTo frame, and the last speed given to the driver is 0 on return.
C1_NoMoveToAfterAbort ==
  (MoveToReturned /\ sig = "abort") => ("MoveTo" \notin Range(out) /\ m1speed = 0)

\* C1 (amended): a move-to whose safety poll has read an abort frame completes
\* without error: its output ends with the MoveTo frame and holds no fault
\* frame, and the last speed given to the driver is 0 on return.
C1_AbortedMoveCompletes ==
  (MoveToReturned /\ sig = "abort") =>
     /\ out # <<>> /\ out[Len(out)] = "MoveTo"
     /\ Range(out) \cap FaultFrames = {}
     /\ m1speed = 0

C1_Witness == MoveToReturned /\ sig = "abort" /\ dir = FORWARD /\ pos < target

\* C3 (as claimed): a move-to that returns with no fault and no abort seen has
\* its final reading within 1 of the target.
C3_AlwaysWithinTolerance ==
  (MoveToReturned /\ faulted = "none" /\ sig # "abort") => Abs(pos - target) <= Tolerance

\* C3 (amended): a move-to that returns TRUE having seen neither an abort nor a
\* limit, and whose correction loop has not used up its attempts, has its final
\* reading within 1 of the target.
C3_WithinToleranceUnlessGivenUp ==
  (MoveToReturned /\ faulted # "init" /\ sig = "none" /\ attempts >= 0)
     => Abs(pos - target) <= Tolerance

C3_Witness ==
  /\ MoveToReturned /\ faulted = "none" /\ sig = "none"
  /\ ms = FineMs /\ attempts >= 0
  /\ Abs(pos - target) <= Tolerance

\* a safety poll is about to be taken by the motion operation in progress
PollPoint ==
  \/ pc \in {"run_loop", "cal_loop", "mt_tk_poll"}
  \/ pc = "mt_coarse" /\ CoarseMore(dir, pos, target) /\ StatusDue(counter)
  \/ pc = "mt_fn_poll" /\ ~AttemptsOut(attempts)

LimitsSet == home_limit # Unset /\ max_limit # Unset

\* C2 (as claimed): with an actuator that moves whenever it is driven and no
\* abort frame in the input, every move-to that has applied its speed returns.
NoAbortFrame == \A i \in 1..Len(inbuf) : CmdChar(inbuf[i].data) # "z"

C2_MoveToTerminates == []NoAbortFrame => ((pc = "mt_chk") ~> (pc = "ret"))

\* C4 (as claimed): with both limits set, a safety poll taken while the reading
\* is within 2 units of a limit ends the operation with the motor stopped.
C4_PollNearLimitStops ==
  [][(PollPoint /\ ProgStep /\ LimitsSet
       /\ (Abs(pos - home_limit) <= LimitMargin \/ Abs(pos - max_limit) <= LimitMargin))
     => (pc' = "ret" /\ m1speed' = 0)]_vars

\* a poll of a free run forward that started between the limit zones, with both
\* limits set, which reads no stop frame
FwdPoll ==
  /\ pc = "run_loop" /\ cmd = "c" /\ ProgStep
  /\ LimitsSet /\ ~start_lim
  /\ ~check_stop(inbuf)

RunGoesOn == pc' = "run_loop" /\ m1speed' = m1speed
RunEnds == pc' = "ret" /\ m1speed' = 0

SignalAsserted ==
  /\ pc \in {"run_loop", "cal_loop"}
  /\ \/ \E i \in 1..Len(inbuf) :
          inbuf[i].during # "" /\ CmdChar(inbuf[i].data) \in {"z", "e"}
     \/ check_limit(pos, home_limit, max_limit)

\* C6 (as claimed): once a stop frame, an abort frame or a limit condition is
\* asserted during a free run or a calibration, the operation returns.
C6_SignalEndsOperation == SignalAsserted ~> (pc = "ret")

\* C7 (as claimed): no frame that arrived during a motion operation is still in
\* the input when the operation has returned (so none is dispatched later).
C7_NoFrameLeftBehind ==
  (pc \in {"ret", "idle"}) => \A i \in 1..Len(inbuf) : inbuf[i].during = ""

\* C8 (as claimed): a stop frame that arrived during a free run never gets the
\* StopRun response from the dispatcher.
C8_StopNeverAnswered ==
  [][(/\ pc = "idle" /\ inbuf # <<>> /\ pc' = "ret"
      /\ Head(inbuf).during = "run" /\ CmdChar(Head(inbuf).data) = "e")
     => "StopRun" \notin Range(out')]_vars

\* C9 (as claimed): a command during which getFault() answered true has a fault
\* frame in its output.
C9_FaultReported ==
  (pc = "ret" /\ faulted # "none") => Range(out) \cap FaultFrames # {}

\* the value the dispatcher has applied for the argument of the command
AppliedArg ==
  CASE cmd = "j" -> home_limit
    [] cmd = "k" -> max_limit
    [] cmd = "m" -> target
    [] cmd = "s" -> current_speed
    [] OTHER -> ms

\* C10 (as claimed): the frame "<c>,<n>." with n in 0..1023 is applied as n.
C10_ArgumentApplied ==
  [][\A n \in 0..MaxArg :
       (/\ pc = "idle" /\ inbuf # <<>> /\ pc' # "idle"
        /\ CmdChar(Head(inbuf).data) \in ArgCmds
        /\ Head(inbuf).data = Format(CmdChar(Head(inbuf).data), n))
       => AppliedArg' = n]_vars

\* ---------------------------------------------------------- C11 .. C20
\* largest speed magnitude of the driver (current_speed "in range 0 to +-400")
MaxSpeed == 400

\* loop() reads a frame with command character c and process() handles it
Dispatched(c) ==
  pc = "idle" /\ inbuf # <<>> /\ CmdChar(Head(inbuf).data) = c /\ pc' # "idle"

\* C11 (as claimed): every speed given to the driver lies in -400..400 and
\* current_speed lies in 0..400.
C11_SpeedsInRange ==
  m1speed \in -MaxSpeed..MaxSpeed /\ current_speed \in 0..MaxSpeed

\* C12: a heartbeat frame handled by the dispatcher prints exactly y and changes
\* neither current_speed, home_limit, max_limit, the relay nor the motor speed.
C12_HeartbeatAnswered ==
  [][Dispatched("y") => (out' = <<"y">> /\ pc' = "ret" /\ UNCHANGED <<config, m1speed>>)]_vars

C12_Witness ==
  /\ pc = "ret" /\ cmd = "y" /\ out = <<"y">>
  /\ current_speed # DEFAULT_SPEED /\ LimitsSet /\ relay = "LOW"

\* C13: an abort frame handled by the dispatcher (no motion operation is
\* active) prints nothing and changes neither current_speed, home_limit,
\* max_limit, the relay nor the motor speed.
C13_IdleAbortIsNoOp ==
  [][Dispatched("z") => (out' = <<>> /\ pc' = "ret" /\ UNCHANGED <<config, m1speed>>)]_vars

C13_Witness ==
  /\ pc = "ret" /\ cmd = "z" /\ out = <<>>
  /\ current_speed # DEFAULT_SPEED /\ LimitsSet /\ relay = "LOW"

\* C14: a frame handled by the dispatcher whose command character is not a
\* command prints exactly Bad cmd!, gives no speed to the driver and changes
\* neither current_speed, home_limit, max_limit nor the relay.
C14_UnknownCommandRejected ==
  [][(pc = "idle" /\ inbuf # <<>> /\ pc' # "idle"
        /\ CmdChar(Head(inbuf).data) \notin KnownCmds)
     => (out' = <<"Bad cmd!">> /\ pc' = "ret" /\ UNCHANGED <<config, m1speed>>)]_vars

C14_Witness ==
  /\ pc = "ret" /\ cmd \notin KnownCmds /\ out = <<"Bad cmd!">>
  /\ current_speed # DEFAULT_SPEED /\ LimitsSet

\* C15: a calibration whose first speed application faults returns at once:
\* its output is Motor fault followed by Home / Max with no Status frame, and
\* no frame is read from the input.
C15_CalibrationFaultSkipsLoop ==
  [][(pc = "cal_chk" /\ faulted' = "init")
     => /\ out' = <<"Motor fault", CalName(cmd)>>
        /\ inbuf' = inbuf
        /\ pc' = "ret" /\ m1speed' = 0]_vars

C15_Witness ==
  /\ pc = "ret" /\ cmd \in {"h", "x"} /\ faulted = "init"
  /\ inbuf # <<>> /\ inbuf[1].during = "move"

\* C16: a move-to that did not fault at its first speed application has a
\* Status frame in its output before its response frame.
C16_StatusBeforeResponse ==
  (MoveToReturned /\ faulted # "init")
     => /\ out # <<>> /\ out[Len(out)] = "MoveTo"
        /\ \E i \in 1..(Len(out) - 1) : out[i] = "Status"

C16_Witness ==
  MoveToReturned /\ faulted = "none" /\ sig = "none" /\ out = <<"Status", "MoveTo">>

\* the correction pulses issued so far in this call, when one has just ended
\* (attempts is decremented after each pulse)
FinePulses == Attempts - attempts + 1

\* C17 (as claimed): one move_to call issues at most 10 correction pulses.
C17_AtMostTenPulses == (pc = "mt_fn_poll") => FinePulses <= Attempts

\* the coarse loop has ended on its own test: the motor is stopped and the
\* settled reading is compared with the target
CoarseEnds == pc = "mt_coarse" /\ ~CoarseMore(dir, pos, target) /\ ProgStep

\* C18 (as claimed): whenever the coarse phase ends without a safety signal
\* with the settled reading above the target, by any amount, reverse take-up
\* pulses follow until the reading is at or below the target, before any
\* correction pulse and before the return.
C18_OvershootAlwaysTakenUp ==
  [][/\ (CoarseEnds /\ pos > target) => pc' = "mt_takeup"
     /\ (pc \in {"mt_takeup", "mt_tk_poll"} /\ pos > target /\ ProgStep)
          => pc' \notin {"mt_fine", "ret"}]_vars

\* C18 (amended): when the coarse phase ends without a safety signal with the
\* settled reading more than 1 above the target, the motor is stopped and
\* reverse take-up pulses (100 ms at the slow speed) are issued while the
\* reading is above the target; the correction loop is entered only with the
\* reading at or below the target, and the take-up ends earlier only when the
\* poll after a pulse reads an abort frame or finds a limit, in which case
\* move_to returns.  A reading exactly 1 above the target is accepted as it is:
\* move_to returns without any pulse.
C18_OvershootBeyondToleranceTakenUp ==
  [][/\ (CoarseEnds /\ pos > target + Tolerance)
          => (pc' = "mt_takeup" /\ m1speed' = 0 /\ current_speed' = SlowSpeed)
     /\ (CoarseEnds /\ pos > target /\ pos <= target + Tolerance)
          => (pc' = "ret" /\ ms' = 0)
     /\ (pc = "mt_takeup" /\ pos > target /\ ProgStep)
          => (pc' = "ms_chk" /\ ms' = TakeupMs /\ m1speed' = -SlowSpeed)
     /\ (pc = "mt_tk_poll" /\ pos > target /\ ProgStep)
          => (pc' = "mt_takeup" \/ (pc' = "ret" /\ sig' \in {"abort", "limit"}))
     /\ (pc # "mt_fine" /\ pc' = "mt_fine" /\ attempts' = Attempts) => pos <= target]_vars

C18_Witness ==
  /\ pc = "mt_fine" /\ dir = FORWARD /\ ms = TakeupMs /\ attempts = Attempts
  /\ pos <= target /\ sig = "none"

\* a safety poll of the coarse phase is about to be taken
CoarsePoll ==
  pc = "mt_coarse" /\ CoarseMore(dir, pos, target) /\ StatusDue(counter) /\ ProgStep

\* C19: when a safety poll of the coarse phase (either direction) reads an
\* abort frame or finds a limit, the next speed given to the driver is 0 and
\* move_to returns without a take-up or a correction pulse.
C19_CoarseSignalStopsAtOnce ==
  [][(CoarsePoll /\ (check_abort(inbuf) \/ check_limit(pos, home_limit, max_limit)))
     => (m1speed' = 0 /\ pc' = "ret" /\ ms' = 0 /\ attempts' = 0)]_vars

C19_Witness ==
  /\ MoveToReturned /\ sig = "limit" /\ endf /\ dir = REVERSE
  /\ m1speed = 0 /\ ms = 0

\* a safety poll of the coarse phase or of a calibration is about to be taken
AbortPoll == CoarsePoll \/ (pc = "cal_loop" /\ ProgStep)

\* C20 (as claimed): a poll of the coarse phase or of a calibration taken with
\* an abort frame in the input that arrived during the operation, whatever
\* frames arrived before it during the operation, ends the drive loop.
C20_AbortActsAtFirstPoll ==
  [][(AbortPoll /\ \E i \in 1..Len(inbuf) :
                     /\ CmdChar(inbuf[i].data) = "z"
                     /\ \A j \in 1..i : inbuf[j].during = "move")
     => pc' = "ret"]_vars

\* C20 (amended): each such poll reads one frame.  If it is the abort frame
\* the drive loop ends with the motor stopped; if it is another frame it is
\* discarded and the abort frame behind it is left for a later poll, so an
\* abort frame with k unread frames in front of it is acted on at poll k + 1
\* (unless the operation ends before on a limit).
C20_AbortActsWhenRead ==
  [][(AbortPoll /\ inbuf # <<>>)
     => IF CmdChar(Head(inbuf).data) = "z"
          THEN pc' = "ret" /\ m1speed' = 0 /\ sig' = "abort" /\ inbuf' = Tail(inbuf)
          ELSE inbuf' = Tail(inbuf) /\ (pc' = pc \/ (pc' = "ret" /\ sig' = "limit"))]_vars

C20_Witness ==
  /\ pc = "ret" /\ cmd \in {"h", "x"} /\ sig = "abort" /\ m1speed = 0
  /\ inbuf # <<>> /\ inbuf[1].during = "move"

\* ---------------------------------------------------------- C21 .. C30
\* C21 (as claimed): a poll of a calibration decides as it would with the soft
\* limits unset, so that for the same readings and frames the calibration
\* stops at the same poll whatever home_limit and max_limit are.
C21_CalibrationIgnoresLimits ==
  (pc = "cal_loop") =>
     (check_limit(pos, home_limit, max_limit) = check_limit(pos, Unset, Unset))

\* an iteration of the loop of a free run or a calibration that goes on
LoopIteration == pc \in {"run_loop", "cal_loop"} /\ pc' = pc /\ ProgStep

\* the number of the iteration about to run, counted from the start of the
\* loop or from the last status report (counter goes down by one from 5)
SinceStatus == StatusReload - counter + 1

\* iterations between two status reports
StatusPeriod == StatusReload + 1

\* C24 (as claimed): in a free run and in a calibration the first Status frame
\* is printed by the 5th iteration of the loop (and then every 5th).
C24_StatusEveryFifth ==
  [][(LoopIteration /\ out = <<>>)
     => ((out' = <<"Status">>) <=> (SinceStatus = StatusReload))]_vars

\* C24 (amended): the Status frame is printed by every 6th iteration
\* (iterations 6, 12, 18, ...).
C24_StatusEverySixth ==
  [][LoopIteration
     => /\ (out = <<>>) => ((out' = <<"Status">>) <=> (SinceStatus = StatusPeriod))
        /\ StatusDue(counter) <=> (SinceStatus = StatusPeriod)
        /\ SinceStatus' = (IF SinceStatus = StatusPeriod THEN 1 ELSE SinceStatus + 1)]_vars

C24_Witness ==
  pc = "cal_loop" /\ out = <<"Status">> /\ counter = StatusReload /\ sig = "none"

\* current_speed as it was when the running move_to was called: current_speed
\* itself until the correction starts, the saved l_speed from then on
CallSpeed == IF pc \in {"mt_chk", "mt_coarse"} THEN current_speed ELSE l_speed

\* C25: every step of move_to keeps the speed of the call, and every return
\* leaves current_speed equal to it.
C25_SpeedRestored ==
  [][(cmd = "m" /\ Active /\ ProgStep)
     => IF pc' = "ret" THEN current_speed' = CallSpeed ELSE CallSpeed' = CallSpeed]_vars

C25_Witness ==
  /\ MoveToReturned /\ ms = FineMs /\ attempts < 0
  /\ current_speed = DEFAULT_SPEED /\ l_speed = DEFAULT_SPEED

\* C26: home_limit changes only when a j frame is dispatched, max_limit only
\* when a k frame is dispatched, and current_speed only when an s frame is
\* dispatched or inside a move-to (which restores it); a frame read by a
\* safety poll changes none of them.
C26_ConfigChangedOnlyByDispatcher ==
  [][/\ (home_limit' # home_limit) => Dispatched("j")
     /\ (max_limit' # max_limit) => Dispatched("k")
     /\ (current_speed' # current_speed) => (Dispatched("s") \/ (cmd = "m" /\ Active))]_vars

C26_Witness ==
  /\ pc \in {"run_loop", "cal_loop"} /\ LimitsSet /\ current_speed = DEFAULT_SPEED
  /\ inbuf = <<>> /\ counter < StatusReload /\ relay = "LOW"

\* getFault() is about to be asked after the first speed of a motion command
InitialCheck ==
  \/ pc \in {"fwd_chk", "rev_chk", "cal_chk", "mt_chk"}
  \/ (pc = "ms_chk" /\ ms_ret = "cmd")

\* C27: when the driver reports a fault at the first speed application of a
\* motion command, the next speed given to the driver is 0 and the operation
\* returns (no other speed is given in it).
C27_InitialFaultStops ==
  [][(InitialCheck /\ faulted' = "init") => (m1speed' = 0 /\ pc' = "ret")]_vars

C27_Witness ==
  pc = "ret" /\ cmd \in {"v", "w"} /\ faulted = "init" /\ m1speed = 0 /\ current_speed # 0

\* C28: whenever loop() waits for the next frame the last speed given to the
\* driver is 0.
C28_IdleMotorStopped == (pc = "idle") => (m1speed = 0)

C28_Witness ==
  /\ pc = "idle" /\ m1speed = 0 /\ current_speed # 0
  /\ inbuf # <<>> /\ inbuf[1].during = "run"

\* C29: Status frames are printed only for a motion command and only before
\* its response frame; nothing is printed while loop() waits.
C29_StatusOnlyWithinMotion ==
  /\ (pc = "idle") => (out = <<>>)
  /\ \A i \in 1..Len(out) :
        (out[i] = "Status") => (cmd \in MotionCmds /\ \A j \in 1..i : out[j] = "Status")

C29_Witness ==
  pc = "ret" /\ cmd = "c" /\ out = <<"Status", "RunFwd">>

\* the reading fb is in a limit zone
InZone(fb) == fb < home_limit + LimitMargin \/ fb > max_limit - LimitMargin

\* the first poll of a free run is about to be taken
FirstPoll == pc = "run_loop" /\ counter = StatusReload /\ out = <<>> /\ ProgStep

\* C30 (as claimed): with both limits set, a free run in either direction
\* that was started with the reading in a limit zone ends at its first poll.
C30_ZoneStartEndsAtFirstPoll ==
  [][(FirstPoll /\ LimitsSet /\ start_zone) => RunEnds]_vars

\* C30 (amended): with both limits set, the first poll of a free run ends it
\* if the reading it takes is in a limit zone (or it reads a stop frame),
\* whatever the direction, and lets it go on otherwise.  The first poll of a
\* free run forward takes the reading of the start, so that a run forward
\* started in a zone ends at once; a free run reverse has driven for 300 ms
\* before its first poll.
C30_ZoneAtFirstPollEnds ==
  [][/\ (FirstPoll /\ LimitsSet)
          => IF check_stop(inbuf) \/ InZone(pos) THEN RunEnds ELSE RunGoesOn
     /\ (pc = "fwd_chk" /\ pc' = "run_loop") => (pos' = pos)
     /\ (FirstPoll /\ LimitsSet /\ start_zone /\ cmd = "c") => RunEnds]_vars

C30_Witness ==
  /\ pc = "ret" /\ cmd = "c" /\ start_zone /\ sig = "limit"
  /\ current_speed > 0 /\ pos < home_limit + LimitMargin /\ out = <<"RunFwd">>

\* =================================================================
\* The stall-detecting sketch (second sketch of the source file): no
\* soft limits; end of travel is a reading that has stopped changing
\* =================================================================
\* Frames the host sends to it when idle, and during an operation
StallVocab == {<<"c">>, <<"d">>, <<"h">>, <<"x">>}
StallMidVocab == {<<"e">>, <<"z">>}

\* variables this sketch does not have or that its operations modelled
\* here leave alone
stall_rest == <<current_speed, home_limit, max_limit, relay, start_lim,
                start_zone, target, dir, endf, l_speed, attempts, diff, ms,
                ms_ret>>
stall_globals == <<fb_val, fb_counter>>
stall_locals == <<cal_fb_val, cal_fb_counter>>

\* ((fb_val + 2) >= last_fb_val) && ((fb_val - 2) <= last_fb_val)
Stationary(fb, last) == (fb + StallMargin >= last) /\ (fb - StallMargin <= last)

\* if (fb_counter-- <= 0): the test, and the counter after it
CountedOut(c) == c <= 0
Decremented(c) == c - 1

\* What process() prints when the operation of command c returns
StallResponse(c, ok) ==
  IF c = "c" THEN <<"RunFwd">>
  ELSE IF c = "d" THEN <<"RunRev">>
  ELSE (IF ok THEN <<>> ELSE <<"Motor fault">>)
         \o (IF c = "h" THEN <<"Home">> ELSE <<"Max">>)

\* the operation returns (its status counter goes out of scope) and
\* process() prints the response
StallReturnAfter(o, ok) ==
  /\ pc' = "idle"
  /\ m1speed' = 0
  /\ out' = o \o StallResponse(cmd, ok)
  /\ counter' = 0

StallReturn(ok) == StallReturnAfter(out, ok)

\* The host sends a frame when the last one has been read
StallSend ==
  /\ inbuf = <<>>
  /\ \E d \in (IF pc = "idle" THEN StallVocab ELSE StallMidVocab) :
       inbuf' = <<[data |-> d, during |-> ""]>>
  /\ UNCHANGED <<m1speed, pos, pc, cmd, out, sig, faulted, counter, stab,
                 stall_rest>>

\* loop() reads a frame and process() switches on data[0]
StallDispatch(c) ==
  /\ pc = "idle" /\ inbuf # <<>>
  /\ CmdChar(Head(inbuf).data) = c
  /\ inbuf' = Tail(inbuf)
  /\ cmd' = c /\ out' = <<>> /\ sig' = "none" /\ faulted' = "none"
  /\ streak' = 0
  /\ UNCHANGED <<pos, stall_rest>>

\* case 'c': move_fwd sets the limit switch counter, then the speed
stall_move_fwd ==
  /\ StallDispatch("c")
  /\ counter' = StatusReload
  /\ fb_counter' = StabReload
  /\ m1speed' = current_speed
  /\ pc' = "st_chk"
  /\ UNCHANGED <<fb_val, stall_locals>>

\* case 'd': move_rev sets the speed; fb_counter is as the last run left it
stall_move_rev ==
  /\ StallDispatch("d")
  /\ fb_counter > -MaxDebt
  /\ counter' = StatusReload
  /\ m1speed' = -current_speed
  /\ pc' = "st_chk"
  /\ UNCHANGED <<stall_globals, stall_locals>>

\* case 'h' / 'x': go_home_or_max with its own fb_val, last_fb_val, fb_counter
stall_go_home_or_max ==
  /\ \E c \in {"h", "x"} :
       /\ StallDispatch(c)
       /\ m1speed' = IF c = "h" THEN -current_speed ELSE current_speed
  /\ cal_fb_val' = NoReading
  /\ cal_fb_counter' = StabReload
  /\ counter' = StatusReload
  /\ pc' = "st_chk"
  /\ UNCHANGED stall_globals

\* case 'e': stop_move and "StopRun;"; case 'z': nothing
stall_process_other ==
  /\ \E c \in {"e", "z"} :
       /\ StallDispatch(c)
       /\ out' = IF c = "e" THEN <<"StopRun">> ELSE <<>>
       /\ m1speed' = IF c = "e" THEN 0 ELSE m1speed
  /\ UNCHANGED <<pc, counter, stall_globals, stall_locals>>

\* md.getFault() after the first setM1Speed answers true
stall_fault ==
  /\ pc = "st_chk"
  /\ faulted' = "init"
  /\ StallReturn(FALSE)
  /\ UNCHANGED <<pos, inbuf, cmd, sig, stab, stall_rest>>

\* no fault: move_fwd polls at once, move_rev after delay(300),
\* go_home_or_max after delay(100)
stall_go ==
  /\ pc = "st_chk"
  /\ pc' = IF cmd \in {"c", "d"} THEN "st_run" ELSE "st_cal"
  /\ pos' \in (IF cmd = "c" THEN {pos} ELSE Moved(0))
  /\ UNCHANGED <<m1speed, inbuf, cmd, out, sig, faulted, counter, stab,
                 stall_rest>>

\* while (!check_stop() && ...): the frame read is 'e'; check_limit is not called
stall_run_stop ==
  /\ pc = "st_run"
  /\ check_stop(inbuf)
  /\ inbuf' = Drained(inbuf)
  /\ sig' = "stop"
  /\ StallReturn(TRUE)
  /\ UNCHANGED <<pos, cmd, faulted, stab, stall_rest>>

\* while (... && !check_limit()): check_limit (last_fb_val = fb_val;
\* fb_val = the reading; the test), then the loop body
stall_check_limit ==
  /\ pc = "st_run"
  /\ ~check_stop(inbuf)
  /\ inbuf' = Drained(inbuf)
  /\ fb_val' = pos
  /\ LET still == Stationary(pos, fb_val)
         limit == still /\ CountedOut(fb_counter)
     IN  /\ fb_counter' = IF still THEN Decremented(fb_counter) ELSE fb_counter
         /\ streak' = IF still THEN streak + 1 ELSE 0
         /\ IF limit
            THEN /\ sig' = "limit"
                 /\ StallReturn(TRUE)
                 /\ pos' = pos
            ELSE /\ pos' \in Moved(0)
                 /\ counter' = NextCounter(counter)
                 /\ out' = IF StatusDue(counter) THEN send_status(out) ELSE out
                 /\ UNCHANGED <<pc, m1speed, sig>>
  /\ UNCHANGED <<cmd, faulted, stall_locals, stall_rest>>

\* one iteration of the loop of go_home_or_max; the locals go out of
\* scope when it returns
stall_cal_poll ==
  /\ pc = "st_cal"
  /\ LET still == Stationary(pos, cal_fb_val)
         limit == still /\ CountedOut(cal_fb_counter)
         abort == ~limit /\ check_abort(inbuf)
         reported == IF StatusDue(counter) THEN send_status(out) ELSE out
     IN  /\ streak' = IF still THEN streak + 1 ELSE 0
         /\ inbuf' = IF limit THEN inbuf ELSE Drained(inbuf)
         /\ pos' \in (IF abort THEN {pos} ELSE Moved(0))
         /\ IF limit \/ abort
            THEN /\ sig' = IF limit THEN "limit" ELSE "abort"
                 /\ StallReturnAfter(IF limit THEN out ELSE reported, TRUE)
                 /\ cal_fb_val' = NoReading
                 /\ cal_fb_counter' = StabReload
            ELSE /\ cal_fb_val' = pos
                 /\ cal_fb_counter' =
                      IF still THEN Decremented(cal_fb_counter) ELSE cal_fb_counter
                 /\ out' = reported
                 /\ counter' = NextCounter(counter)
                 /\ UNCHANGED <<pc, m1speed, sig>>
  /\ UNCHANGED <<cmd, faulted, stall_globals, stall_rest>>

StallNext ==
  \/ StallSend
  \/ stall_move_fwd \/ stall_move_rev \/ stall_go_home_or_max
  \/ stall_process_other
  \/ stall_fault \/ stall_go
  \/ stall_run_stop \/ stall_check_limit \/ stall_cal_poll

StabSpec == Init /\ [][StallNext]_vars

\* a step that evaluates the end-of-travel test
StallPoll ==
  /\ \/ pc = "st_run" /\ ~check_stop(inbuf)
     \/ pc = "st_cal"
  /\ ProgStep

\* the stability counter of the operation in progress
UsedCounter == IF cmd \in {"h", "x"} THEN cal_fb_counter ELSE fb_counter

\* C22: the stability heuristic declares end-of-travel at exactly the 5th
\* consecutive poll whose sample is within 2 units of the previous poll's
\* sample, not earlier and not later.
C22_EndOfTravelAtFifthStablePoll ==
  [][StallPoll => ((sig' = "limit") <=> (streak' = StabReload))]_vars

\* C23: the stability counter is back at its initial value after every poll
\* whose sample moved more than 2 units, and when an operation that uses it
\* (free run forward, free run reverse, calibration) starts polling.
C23_StabilityCounterReset ==
  [][/\ (StallPoll /\ streak' = 0 /\ pc' = pc) => (UsedCounter' = StabReload)
     /\ (pc = "st_chk" /\ pc' \in {"st_run", "st_cal"})
          => (UsedCounter' = StabReload)]_vars

====
